---- MODULE Spec2Model ----
(***************************************************************************)
(* Model of bookstore_manager.py: a console menu over one sqlite3          *)
(* connection holding the tables member, book and sale.                    *)
(*                                                                         *)
(* db   is the content of the tables as the open connection sees it        *)
(*      (committed rows plus the writes of the open transaction);          *)
(* disk is the committed content of the database file.                     *)
(* The sqlite3 module opens a transaction implicitly before an INSERT,     *)
(* UPDATE or DELETE; conn.commit() makes disk equal to db, conn.rollback() *)
(* makes db equal to disk.                                                 *)
(*                                                                         *)
(* Text typed by the operator is a sequence of one-character strings.      *)
(*                                                                         *)
(* ever is a history variable, not program state: the sale ids ever given  *)
(* to a seeded or recorded row, and the sale ids ever deleted.             *)
(***************************************************************************)
EXTENDS Integers, Sequences, FiniteSets, TLC

VARIABLES run, pc, sel, db, disk, last, ever

vars == <<run, pc, sel, db, disk, last, ever>>

(***************************************************************************)
(* Bounds                                                                  *)
(***************************************************************************)
\* largest sale id the model lets the AUTOINCREMENT counter reach
MaxSid == 6

(***************************************************************************)
(* Text                                                                    *)
(***************************************************************************)
DigitChars == <<"0", "1", "2", "3", "4", "5", "6", "7", "8", "9">>

AsciiDigit == {DigitChars[i] : i \in 1..10}

\* characters for which str.isdigit() is true; "sup2" stands for the
\* superscript two, a digit for isdigit() that int() does not accept
UnicodeDigit == AsciiDigit \cup {"sup2"}

DigitVal(c) == (CHOOSE i \in 1..10 : DigitChars[i] = c) - 1

RECURSIVE DigitsValue(_)
DigitsValue(s) ==
    IF s = <<>> THEN 0
    ELSE 10 * DigitsValue(SubSeq(s, 1, Len(s) - 1)) + DigitVal(s[Len(s)])

RECURSIVE Strip(_)
Strip(s) ==
    IF s = <<>> THEN s
    ELSE IF s[1] = " " THEN Strip(Tail(s))
    ELSE IF s[Len(s)] = " " THEN Strip(SubSeq(s, 1, Len(s) - 1))
    ELSE s

\* int(text): optional sign, then at least one ASCII digit; anything else
\* raises ValueError (ok = FALSE)
ParseInt(s) ==
    LET t    == Strip(s)
        sign == t # <<>> /\ t[1] \in {"-", "+"}
        body == IF sign THEN Tail(t) ELSE t
        good == body # <<>> /\ \A i \in 1..Len(body) : body[i] \in AsciiDigit
    IN  IF ~good THEN [ok |-> FALSE, val |-> 0]
        ELSE [ok |-> TRUE,
              val |-> IF sign /\ t[1] = "-" THEN 0 - DigitsValue(body)
                      ELSE DigitsValue(body)]

\* text.isdigit()
IsDigit(s) == s # <<>> /\ \A i \in 1..Len(s) : s[i] \in UnicodeDigit

CountHyphen(s) == Cardinality({i \in 1..Len(s) : s[i] = "-"})

checkdate_LenOnly(date_str) == Len(date_str) = 10

checkdate(date_str) == Len(date_str) = 10 /\ CountHyphen(date_str) = 2

(***************************************************************************)
(* Tables                                                                  *)
(***************************************************************************)
NoRows == [k \in {} |-> 0]

EmptyDb == [member |-> NoRows, book |-> NoRows, sale |-> {}, seq |-> 0]

\* INSERT OR IGNORE of keyed rows: a row whose key is present is skipped
InsertOrIgnore(table, rows) ==
    [k \in DOMAIN table \cup DOMAIN rows |->
        IF k \in DOMAIN table THEN table[k] ELSE rows[k]]

SeedMember ==
    [m \in {"M001", "M002", "M003"} |->
        CASE m = "M001" -> "Alice"
          [] m = "M002" -> "Bob"
          [] m = "M003" -> "Cathy"]

SeedBook ==
    [b \in {"B001", "B002", "B003"} |->
        CASE b = "B001" -> [btitle |-> "Python Programming",
                            bprice |-> 600, bstock |-> 50]
          [] b = "B002" -> [btitle |-> "Data Science Basics",
                            bprice |-> 800, bstock |-> 30]
          [] b = "B003" -> [btitle |-> "Machine Learning Guide",
                            bprice |-> 1200, bstock |-> 20]]

\* date.today().strftime('%Y-%m-%d')
Today == <<"2", "0", "2", "6", "-", "1", "1", "-", "0", "1">>

SeedSale_UnknownMember ==
    << [sdate |-> Today, mid |-> "M001", bid |-> "B001",
        sqty |-> 2, sdiscount |-> 100, stotal |-> 1100],
       [sdate |-> Today, mid |-> "M002", bid |-> "B002",
        sqty |-> 1, sdiscount |-> 50, stotal |-> 750],
       [sdate |-> Today, mid |-> "M001", bid |-> "B003",
        sqty |-> 3, sdiscount |-> 200, stotal |-> 3400],
       [sdate |-> Today, mid |-> "M004", bid |-> "B001",
        sqty |-> 1, sdiscount |-> 0, stotal |-> 600] >>

SeedSale ==
    << [sdate |-> Today, mid |-> "M001", bid |-> "B001",
        sqty |-> 2, sdiscount |-> 100, stotal |-> 1100],
       [sdate |-> Today, mid |-> "M002", bid |-> "B002",
        sqty |-> 1, sdiscount |-> 50, stotal |-> 750],
       [sdate |-> Today, mid |-> "M001", bid |-> "B003",
        sqty |-> 3, sdiscount |-> 200, stotal |-> 3400],
       [sdate |-> Today, mid |-> "M003", bid |-> "B001",
        sqty |-> 1, sdiscount |-> 0, stotal |-> 600] >>

\* a sale row as stored: the inserted columns plus the AUTOINCREMENT sid
SaleRow(sid, r) ==
    [sid |-> sid, sdate |-> r.sdate, mid |-> r.mid, bid |-> r.bid,
     sqty |-> r.sqty, sdiscount |-> r.sdiscount, stotal |-> r.stotal]

InsertSale_MaxRowid(d, r) ==
    LET ids == {s.sid : s \in d.sale}
        top == IF ids = {} THEN 0
               ELSE CHOOSE x \in ids : \A y \in ids : y <= x
    IN  [d EXCEPT !.sale = @ \cup {SaleRow(top + 1, r)}, !.seq = top + 1]

\* INSERT INTO sale (...) without a sid: the row gets sid = seq + 1
InsertSale(d, r) ==
    [d EXCEPT !.sale = @ \cup {SaleRow(d.seq + 1, r)}, !.seq = @ + 1]

RECURSIVE InsertSales(_, _)
InsertSales(d, rows) ==
    IF rows = <<>> THEN d
    ELSE InsertSales(InsertSale(d, Head(rows)), Tail(rows))

initialize_db(d) ==
    InsertSales([d EXCEPT !.member = InsertOrIgnore(@, SeedMember),
                          !.book   = InsertOrIgnore(@, SeedBook)],
                SeedSale)

Sids(d) == {s.sid : s \in d.sale}

SaleById(d, sid) == CHOOSE s \in d.sale : s.sid = sid

RECURSIVE Ascending_Desc(_)
Ascending_Desc(S) ==
    IF S = {} THEN <<>>
    ELSE LET m == CHOOSE x \in S : \A y \in S : y <= x
         IN  <<m>> \o Ascending_Desc(S \ {m})

\* ascending sequence of a finite set of integers (ORDER BY s.sid)
RECURSIVE Ascending(_)
Ascending(S) ==
    IF S = {} THEN <<>>
    ELSE LET m == CHOOSE x \in S : \A y \in S : x <= y
         IN  <<m>> \o Ascending(S \ {m})

(***************************************************************************)
(* Operator input                                                          *)
(***************************************************************************)
DateInputs ==
    { <<"2", "0", "2", "4", "-", "0", "1", "-", "0", "5">>,
      <<"2", "0", "2", "4", "/", "0", "1", "/", "0", "5">>,
      <<"2", "4", "-", "1", "-", "5">>,
      <<"2", "0", "2", "4", "-", "0", "1", "-", "-", "5">> }

MidInputs == {"M001", "M009"}

BidInputs == {"B001", "B003", "B009"}

QtyInputs == { <<"2", "1">>, <<"5", "0">>, <<"0">>, <<"-", "1">>, <<"x">> }

DiscountInputs ==
    { <<"0">>, <<"3", "0", "0", "0", "0">>, <<"-", "5">>, <<"sup2">>, <<>> }

NewDiscountInputs ==
    { <<"3", "0", "0", "0", "0">>, <<"-", "5">>, <<"sup2">>, <<>> }

\* a seeded sale, every sale the model can record, one id never issued
SidInputs ==
    {<<DigitChars[i + 1]>> : i \in {1} \cup 5..(MaxSid + 1)}
        \cup { <<>>, <<"x">>, <<"sup2">> }

\* the statement of a handler at which the sqlite3 engine raises
\* sqlite3.Error ("none": no statement does)
FailPoints == {"none", "select", "insert", "update", "delete", "commit"}

(***************************************************************************)
(* What the program did last: the menu entry, the text read at the         *)
(* prompts, whether add_sale was called and with what, and what was        *)
(* printed.                                                                *)
(***************************************************************************)
NoLast ==
    [op |-> "none", nread |-> 0, sdate |-> <<>>, qtytext |-> <<>>,
     disctext |-> <<>>, sidtext |-> <<>>, called |-> FALSE,
     mid |-> "", bid |-> "",
     sqty |-> 0, sdiscount |-> 0, ok |-> FALSE, msg |-> "", shown |-> 0,
     sid |-> 0, listing |-> <<>>]

(***************************************************************************)
(* add_sale                                                                *)
(***************************************************************************)
MemberExists_Always(d, mid) == TRUE

MemberExists(d, mid) == mid \in DOMAIN d.member

BookExists(d, bid) == bid \in DOMAIN d.book

InsufficientStock_OffByOne(bstock, sqty) == bstock + 1 < sqty

InsufficientStock_Never(bstock, sqty) == FALSE

InsufficientStock(bstock, sqty) == bstock < sqty

SaleTotal_Floor(bprice, sqty, sdiscount) ==
    IF bprice * sqty - sdiscount < 0 THEN 0 ELSE bprice * sqty - sdiscount

SaleTotal_NoQty(bprice, sqty, sdiscount) == bprice - sdiscount

SaleTotal(bprice, sqty, sdiscount) == (bprice * sqty) - sdiscount

DecrementStock(d, bid, sqty) == [d EXCEPT !.book[bid].bstock = @ - sqty]

\* the except branch: conn.rollback() and the failure message
AddSaleFailed(k) ==
    [ok |-> FALSE, msg |-> "engine_error", shown |-> 0, db |-> k, disk |-> k]

AddSaleRefused(d, k, msg, shown) ==
    [ok |-> FALSE, msg |-> msg, shown |-> shown, db |-> d, disk |-> k]

\* d: the tables as the connection sees them, k: the committed tables,
\* fail: the statement at which the engine raises sqlite3.Error
add_sale(d, k, sdate, mid, bid, sqty, sdiscount, fail) ==
    IF fail = "select" THEN AddSaleFailed(k)
    ELSE IF ~MemberExists(d, mid) THEN AddSaleRefused(d, k, "invalid_mid", 0)
    ELSE IF ~BookExists(d, bid) THEN AddSaleRefused(d, k, "invalid_bid", 0)
    ELSE IF InsufficientStock(d.book[bid].bstock, sqty)
         THEN AddSaleRefused(d, k, "no_stock", d.book[bid].bstock)
    ELSE LET stotal   == SaleTotal(d.book[bid].bprice, sqty, sdiscount)
             inserted == InsertSale(d, [sdate |-> sdate, mid |-> mid,
                                        bid |-> bid, sqty |-> sqty,
                                        sdiscount |-> sdiscount,
                                        stotal |-> stotal])
             updated  == DecrementStock(inserted, bid, sqty)
         IN  IF fail \in {"insert", "update", "commit"} THEN AddSaleFailed(k)
             ELSE [ok |-> TRUE, msg |-> "added", shown |-> stotal,
                   db |-> updated, disk |-> updated]

(***************************************************************************)
(* update_sale and delete_sale statements                                  *)
(***************************************************************************)
\* rows of sale JOIN member (update_sale's list)
JoinMember(d) == {s \in d.sale : s.mid \in DOMAIN d.member}

\* rows of sale JOIN member JOIN book (the report, delete_sale's list)
JoinMemberBook(d) ==
    {s \in d.sale : s.mid \in DOMAIN d.member /\ s.bid \in DOMAIN d.book}

\* rows of sale JOIN book WHERE s.sid = sale_id
Details(d, sale_id) ==
    {s \in d.sale : s.sid = sale_id /\ s.bid \in DOMAIN d.book}

NewTotal_NoQty(bprice, sqty, newdiscount) == bprice - newdiscount

NewTotal(bprice, sqty, newdiscount) == (bprice * sqty) - newdiscount

\* UPDATE sale SET sdiscount = ?, stotal = ? WHERE sid = ?
UpdateSaleRow(d, sale_id, newdiscount, nstotal) ==
    [d EXCEPT !.sale =
        {IF s.sid = sale_id
            THEN [s EXCEPT !.sdiscount = newdiscount, !.stotal = nstotal]
            ELSE s : s \in @}]

DeleteSaleRow_Restock(d, sale_id) ==
    [d EXCEPT !.sale = {s \in @ : s.sid # sale_id},
              !.book = [b \in DOMAIN @ |->
                  IF \E s \in d.sale : s.sid = sale_id /\ s.bid = b
                  THEN [@[b] EXCEPT !.bstock =
                            @ + (CHOOSE s \in d.sale : s.sid = sale_id).sqty]
                  ELSE @[b]]]

\* DELETE FROM sale WHERE sid = ?
DeleteSaleRow(d, sale_id) == [d EXCEPT !.sale = {s \in @ : s.sid # sale_id}]

(***************************************************************************)
(* main                                                                    *)
(***************************************************************************)
QtyRejected_NegativeOnly(sqty) == sqty < 0

QtyRejected(sqty) == sqty <= 0

DiscountRejected_Never(sdiscount) == FALSE

DiscountRejected(sdiscount) == sdiscount < 0

NeedsSeed_Always(d) == TRUE

\* member_count == 0
NeedsSeed(d) == Cardinality(DOMAIN d.member) = 0

SaleExists_Always(d, sale_id) == TRUE

\* SELECT sid FROM sale WHERE sid = ? returns a row
SaleExists(d, sale_id) == sale_id \in Sids(d)

NoHistory == [issued |-> {}, deleted |-> {}]

\* the history of a step: the ids of the rows that appeared, and the ids
\* of the rows a delete of a running program took away
History ==
    ever' = [issued  |-> ever.issued \cup (Sids(db') \ Sids(db)),
             deleted |-> ever.deleted \cup
                 IF last'.op = "delete_sale" /\ run' = "running"
                 THEN Sids(db) \ Sids(db') ELSE {}]

Init ==
    /\ run = "stopped"
    /\ pc = "menu"
    /\ sel = 0
    /\ db = EmptyDb
    /\ disk = EmptyDb
    /\ last = NoLast
    /\ ever = NoHistory

\* an exception leaves main(): the with block rolls the open transaction
\* back and the process ends with a traceback
Crash(l, msg) ==
    /\ run' = "crashed"
    /\ pc' = "menu"
    /\ sel' = 0
    /\ db' = disk
    /\ disk' = disk
    /\ last' = [l EXCEPT !.msg = msg]

\* the handler returns to the menu loop having written nothing
BackToMenu(l) ==
    /\ pc' = "menu"
    /\ sel' = 0
    /\ last' = l
    /\ UNCHANGED <<run, db, disk>>

\* the program is started: connect_db, then main up to the menu loop
Start ==
    /\ run # "running"
    /\ run' = "running"
    /\ pc' = "menu"
    /\ sel' = 0
    /\ disk' = disk
    /\ IF NeedsSeed(disk)
       THEN /\ db' = initialize_db(disk)
            /\ last' = [NoLast EXCEPT !.op = "start", !.msg = "seeded"]
       ELSE /\ db' = disk
            /\ last' = [NoLast EXCEPT !.op = "start", !.msg = "seed_skipped"]
    /\ History

\* choice '1'; each prompt's text is drawn once the flow reaches the prompt
\* (mid and bid are read before the quantity but first used by add_sale)
ChooseAdd ==
    /\ run = "running" /\ pc = "menu"
    /\ \E sdate \in DateInputs :
        LET l1 == [NoLast EXCEPT !.op = "add_sale", !.nread = 1,
                                 !.sdate = sdate]
        IN  IF ~checkdate(sdate)
            THEN BackToMenu([l1 EXCEPT !.msg = "bad_date"])
            ELSE \E qtytext \in QtyInputs :
                LET l4 == [l1 EXCEPT !.nread = 4, !.qtytext = qtytext]
                    q  == ParseInt(qtytext)
                IN  IF ~q.ok
                    THEN BackToMenu([l4 EXCEPT !.msg = "not_integer"])
                    ELSE IF QtyRejected(q.val)
                    THEN BackToMenu([l4 EXCEPT !.msg = "bad_quantity"])
                    ELSE \E disctext \in DiscountInputs :
                        LET l5 == [l4 EXCEPT !.nread = 5,
                                             !.disctext = disctext]
                            dc == ParseInt(disctext)
                        IN  IF ~dc.ok
                            THEN BackToMenu([l5 EXCEPT !.msg = "not_integer"])
                            ELSE IF DiscountRejected(dc.val)
                            THEN BackToMenu([l5 EXCEPT !.msg = "bad_discount"])
                            ELSE \E mid \in MidInputs, bid \in BidInputs,
                                    fail \in FailPoints \ {"delete"} :
                                LET r == add_sale(db, disk, sdate, mid, bid,
                                                  q.val, dc.val, fail)
                                IN  /\ r.ok => db.seq < MaxSid
                                    /\ db' = r.db
                                    /\ disk' = r.disk
                                    /\ last' =
                                        [l5 EXCEPT
                                            !.called = TRUE, !.mid = mid,
                                            !.bid = bid, !.sqty = q.val,
                                            !.sdiscount = dc.val,
                                            !.ok = r.ok, !.msg = r.msg,
                                            !.shown = r.shown,
                                            !.sid = IF r.ok THEN r.db.seq
                                                    ELSE 0]
                                    /\ UNCHANGED <<run, pc, sel>>
    /\ History

\* choice '2': print_sale_report
ChooseReport ==
    /\ run = "running" /\ pc = "menu"
    /\ \E fail \in {"none", "select"} :
        IF fail = "select"
        THEN Crash([NoLast EXCEPT !.op = "report"], "engine_error")
        ELSE LET sales == Ascending({s.sid : s \in JoinMemberBook(db)})
             IN  BackToMenu([NoLast EXCEPT
                     !.op = "report", !.listing = sales,
                     !.msg = IF sales = <<>> THEN "no_records" ELSE "report"])
    /\ History

\* choice '3': update_sale up to its first prompt
ChooseUpdate ==
    /\ run = "running" /\ pc = "menu"
    /\ \E fail \in {"none", "select"} :
        IF fail = "select"
        THEN Crash([NoLast EXCEPT !.op = "update_sale"], "engine_error")
        ELSE LET sales_list == Ascending({s.sid : s \in JoinMember(db)})
                 l == [NoLast EXCEPT !.op = "update_sale",
                                     !.listing = sales_list]
             IN  IF sales_list = <<>>
                 THEN BackToMenu([l EXCEPT !.msg = "no_records"])
                 ELSE /\ pc' = "update_id"
                      /\ last' = [l EXCEPT !.msg = "list"]
                      /\ UNCHANGED <<run, sel, db, disk>>
    /\ History

\* update_sale: one pass of the loop that reads the sale id
UpdateReadId ==
    /\ run = "running" /\ pc = "update_id"
    /\ \E saleid \in SidInputs, fail \in {"none", "select"} :
        LET l == [NoLast EXCEPT !.op = "update_sale", !.nread = 1,
                                !.sidtext = saleid]
        IN  IF saleid = <<>>
                THEN BackToMenu([l EXCEPT !.msg = "cancelled"])
            ELSE IF ~IsDigit(saleid)
                THEN /\ last' = [l EXCEPT !.msg = "not_a_number"]
                     /\ UNCHANGED <<run, pc, sel, db, disk>>
            ELSE IF ~ParseInt(saleid).ok
                THEN Crash(l, "value_error")
            ELSE IF fail = "select"
                THEN Crash(l, "engine_error")
            ELSE IF SaleExists(db, ParseInt(saleid).val)
                THEN /\ pc' = "update_discount"
                     /\ sel' = ParseInt(saleid).val
                     /\ last' = [l EXCEPT !.msg = "id_accepted",
                                          !.sid = ParseInt(saleid).val]
                     /\ UNCHANGED <<run, db, disk>>
            ELSE /\ last' = [l EXCEPT !.msg = "no_such_id",
                                      !.sid = ParseInt(saleid).val]
                 /\ UNCHANGED <<run, pc, sel, db, disk>>
    /\ History

\* update_sale: one pass of the loop that reads the new discount and,
\* once it is accepted, the rest of the handler
UpdateReadDiscount ==
    /\ run = "running" /\ pc = "update_discount"
    /\ \E ndiscount \in NewDiscountInputs,
          fail \in {"none", "select", "update", "commit"} :
        LET l == [NoLast EXCEPT !.op = "update_sale", !.nread = 2,
                                !.disctext = ndiscount, !.sid = sel]
            newdiscount == ParseInt(ndiscount).val
            details == Details(db, sel)
            row     == CHOOSE s \in details : TRUE
            nstotal == NewTotal(db.book[row.bid].bprice, row.sqty,
                                newdiscount)
            updated == UpdateSaleRow(db, sel, newdiscount, nstotal)
        IN  IF ~IsDigit(ndiscount)
                THEN /\ last' = [l EXCEPT !.msg = "not_a_number"]
                     /\ UNCHANGED <<run, pc, sel, db, disk>>
            ELSE IF ~ParseInt(ndiscount).ok
                THEN Crash(l, "value_error")
            ELSE IF fail = "select"
                THEN Crash(l, "engine_error")
            ELSE IF details = {}
                THEN BackToMenu([l EXCEPT !.msg = "not_found"])
            ELSE IF fail \in {"update", "commit"}
                THEN Crash(l, "engine_error")
            ELSE /\ pc' = "menu"
                 /\ sel' = 0
                 /\ db' = updated
                 /\ disk' = updated
                 /\ last' = [l EXCEPT !.ok = TRUE, !.msg = "updated",
                                      !.sdiscount = newdiscount,
                                      !.shown = nstotal]
                 /\ run' = run
    /\ History

\* choice '4': delete_sale up to its prompt
ChooseDelete ==
    /\ run = "running" /\ pc = "menu"
    /\ \E fail \in {"none", "select"} :
        IF fail = "select"
        THEN Crash([NoLast EXCEPT !.op = "delete_sale"], "engine_error")
        ELSE LET sales_list == Ascending({s.sid : s \in JoinMemberBook(db)})
                 l == [NoLast EXCEPT !.op = "delete_sale",
                                     !.listing = sales_list]
             IN  IF sales_list = <<>>
                 THEN BackToMenu([l EXCEPT !.msg = "no_records"])
                 ELSE /\ pc' = "delete_id"
                      /\ last' = [l EXCEPT !.msg = "list"]
                      /\ UNCHANGED <<run, sel, db, disk>>
    /\ History

\* delete_sale: one pass of the loop that reads the sale id and, once it
\* is accepted, the rest of the handler
DeleteReadId ==
    /\ run = "running" /\ pc = "delete_id"
    /\ \E sale_id_str \in SidInputs,
          fail \in {"none", "select", "delete", "commit"} :
        LET l == [NoLast EXCEPT !.op = "delete_sale", !.nread = 1,
                                !.sidtext = sale_id_str]
            sale_id_to_delete == ParseInt(sale_id_str).val
            deleted == DeleteSaleRow(db, sale_id_to_delete)
        IN  IF sale_id_str = <<>>
                THEN BackToMenu([l EXCEPT !.msg = "cancelled"])
            ELSE IF ~IsDigit(sale_id_str)
                THEN /\ last' = [l EXCEPT !.msg = "not_a_number"]
                     /\ UNCHANGED <<run, pc, sel, db, disk>>
            ELSE IF ~ParseInt(sale_id_str).ok
                THEN Crash(l, "value_error")
            ELSE IF fail = "select"
                THEN Crash(l, "engine_error")
            ELSE IF ~SaleExists(db, sale_id_to_delete)
                THEN /\ last' = [l EXCEPT !.msg = "no_such_id",
                                          !.sid = sale_id_to_delete]
                     /\ UNCHANGED <<run, pc, sel, db, disk>>
            ELSE IF fail \in {"delete", "commit"}
                THEN Crash(l, "engine_error")
            ELSE /\ pc' = "menu"
                 /\ sel' = 0
                 /\ db' = deleted
                 /\ disk' = deleted
                 /\ last' = [l EXCEPT !.ok = TRUE, !.msg = "deleted",
                                      !.sid = sale_id_to_delete]
                 /\ run' = run
    /\ History

\* choice '5' or 'enter': the loop ends, the with block commits
ChooseExit ==
    /\ run = "running" /\ pc = "menu"
    /\ run' = "stopped"
    /\ disk' = db
    /\ last' = [NoLast EXCEPT !.op = "exit", !.msg = "goodbye"]
    /\ UNCHANGED <<pc, sel, db>>
    /\ History

\* any other choice
ChooseOther ==
    /\ run = "running" /\ pc = "menu"
    /\ BackToMenu([NoLast EXCEPT !.op = "other", !.msg = "invalid_choice"])
    /\ History

Next ==
    \/ Start
    \/ ChooseAdd
    \/ ChooseReport
    \/ ChooseUpdate
    \/ UpdateReadId
    \/ UpdateReadDiscount
    \/ ChooseDelete
    \/ DeleteReadId
    \/ ChooseExit
    \/ ChooseOther

Spec == Init /\ [][Next]_vars

TypeOK ==
    /\ run \in {"stopped", "running", "crashed"}
    /\ pc \in {"menu", "update_id", "update_discount", "delete_id"}
    /\ sel \in 0..(MaxSid + 1)
    /\ db.seq \in 0..(MaxSid + 1)

(***************************************************************************)
(* Properties                                                              *)
(***************************************************************************)
\* the step is a call of add_sale during which the engine raised nothing
AddSaleCalled == last'.op = "add_sale" /\ last'.called /\ last'.msg # "engine_error"

\* C1: a call of add_sale whose member id and book id exist and whose
\* quantity does not exceed the book's stock (the engine raising no error,
\* which is the case of C8) returns success, adds exactly one sale row, with
\* total = unit price * quantity - discount even when that is negative, and
\* takes the quantity off that book's stock.
C1_ValidSaleRecorded ==
    [][ ( /\ AddSaleCalled
          /\ last'.mid \in DOMAIN db.member
          /\ last'.bid \in DOMAIN db.book
          /\ last'.sqty <= db.book[last'.bid].bstock )
        => /\ last'.ok
           /\ Cardinality(db'.sale) = Cardinality(db.sale) + 1
           /\ \E r \in db'.sale :
                /\ r.sid \notin Sids(db)
                /\ db'.sale = db.sale \cup {r}
                /\ r.mid = last'.mid /\ r.bid = last'.bid
                /\ r.sqty = last'.sqty /\ r.sdiscount = last'.sdiscount
                /\ r.stotal = db.book[last'.bid].bprice * last'.sqty
                                  - last'.sdiscount
                /\ last'.shown = r.stotal
           /\ db'.book[last'.bid].bstock
                  = db.book[last'.bid].bstock - last'.sqty ]_vars

\* a sale with a discount above price * quantity was recorded: its total is
\* negative and the stock went down
C1_Witness ==
    /\ last.op = "add_sale" /\ last.ok
    /\ last.sdiscount > db.book[last.bid].bprice * last.sqty
    /\ \E r \in db.sale : r.sid = last.sid /\ r.stotal < 0
    /\ db.book[last.bid].bstock < SeedBook[last.bid].bstock

C3_UnknownIdRefused ==
    [][ ( /\ AddSaleCalled
          /\ \/ last'.mid \notin DOMAIN db.member
             \/ last'.bid \notin DOMAIN db.book )
        => /\ ~last'.ok
           /\ last'.msg = IF last'.mid \notin DOMAIN db.member
                          THEN "invalid_mid" ELSE "invalid_bid"
           /\ db' = db ]_vars

\* add_sale was called in a seeded store with an unknown member id
C3_Witness ==
    /\ last.op = "add_sale" /\ last.called /\ last.msg = "invalid_mid"
    /\ last.mid \notin DOMAIN db.member
    /\ db.member = SeedMember /\ db.sale # {}

\* C4: in every reachable state the stock of every book is >= 0.
C4_StockNeverNegative ==
    /\ \A b \in DOMAIN db.book : db.book[b].bstock >= 0
    /\ \A b \in DOMAIN disk.book : disk.book[b].bstock >= 0

\* a sale took the whole stock of a book
C4_Witness ==
    /\ last.op = "add_sale" /\ last.ok
    /\ db.book[last.bid].bstock = 0

\* C5: updating the discount of an existing sale stores the new discount
\* and total = unit price of its book * its own quantity - new discount,
\* which is total_old + discount_old - discount_new; the sale's id, date,
\* member, book and quantity, every other sale row and the book table are
\* unchanged.
C5_UpdateRecomputesTotal ==
    [][ ( /\ last'.op = "update_sale" /\ last'.nread = 2
          /\ IsDigit(last'.disctext) /\ ParseInt(last'.disctext).ok
          /\ last'.msg # "engine_error" )
        => /\ last'.msg = "updated"
           /\ sel \in Sids(db) /\ sel \in Sids(db') /\ last'.sid = sel
           /\ LET old == SaleById(db, sel)
                  new == SaleById(db', sel)
                  newdiscount == ParseInt(last'.disctext).val
              IN  /\ new.sdiscount = newdiscount
                  /\ new.stotal = db.book[old.bid].bprice * old.sqty
                                      - newdiscount
                  /\ new.stotal = old.stotal + old.sdiscount - new.sdiscount
                  /\ last'.shown = new.stotal
                  /\ new = [old EXCEPT !.sdiscount = new.sdiscount,
                                       !.stotal = new.stotal]
           /\ {s \in db'.sale : s.sid # sel} = {s \in db.sale : s.sid # sel}
           /\ Cardinality(db'.sale) = Cardinality(db.sale)
           /\ db'.book = db.book
           /\ db'.member = db.member ]_vars

\* the discount of a seeded sale was updated while a recorded sale is in
\* the table
C5_Witness ==
    /\ last.op = "update_sale" /\ last.msg = "updated"
    /\ last.sid <= Len(SeedSale)
    /\ SaleById(db, last.sid).sdiscount # SeedSale[last.sid].sdiscount
    /\ \E s \in db.sale : s.sid > Len(SeedSale)

\* C6: deleting a sale by an existing id removes exactly the row with that
\* id, leaves every other sale row unchanged and leaves the book table, so
\* every stock, unchanged.
C6_DeleteRemovesOneRow ==
    [][ ( /\ last'.op = "delete_sale" /\ last'.nread = 1
          /\ last'.sid \in Sids(db) )
        => /\ last'.msg = "deleted"
           /\ db'.sale = {s \in db.sale : s.sid # last'.sid}
           /\ Cardinality(db'.sale) = Cardinality(db.sale) - 1
           /\ db'.book = db.book
           /\ db'.member = db.member ]_vars

\* a recorded sale was deleted and the stock it took is still gone
C6_Witness ==
    /\ last.op = "delete_sale" /\ last.msg = "deleted"
    /\ last.sid > Len(SeedSale)
    /\ last.sid \notin Sids(db)
    /\ db.sale # {}
    /\ \E b \in DOMAIN db.book : db.book[b].bstock < SeedBook[b].bstock

\* C7: in every reachable state every sale row, the seeded ones included,
\* has total = unit price of its book * its quantity - its discount.
C7_TotalAlwaysComputed ==
    \A s \in db.sale \cup disk.sale :
        /\ s.bid \in DOMAIN db.book
        /\ s.stotal = db.book[s.bid].bprice * s.sqty - s.sdiscount

\* the table holds a seeded row, a seeded row with an updated discount and
\* two recorded rows
C7_Witness ==
    /\ \E s \in db.sale : s.sid <= Len(SeedSale)
                          /\ s.sdiscount = SeedSale[s.sid].sdiscount
    /\ \E s \in db.sale : s.sid <= Len(SeedSale)
                          /\ s.sdiscount # SeedSale[s.sid].sdiscount
    /\ Cardinality({s \in db.sale : s.sid > Len(SeedSale)}) = 2

\* C8: when the engine raises an error inside add_sale, the call returns
\* failure with the error text and the member, book and sale tables hold
\* after the call exactly what they held before it, in every reachable
\* state, the first run right after seeding included.
C8_EngineErrorLeavesTables ==
    [][ (last'.op = "add_sale" /\ last'.called /\ last'.msg = "engine_error")
        => /\ ~last'.ok
           /\ db'.member = db.member
           /\ db'.book = db.book
           /\ db'.sale = db.sale ]_vars

\* C9: an engine error inside a Store write operation (add_sale once
\* called, update_sale once the new discount is accepted, delete_sale once
\* an id is read) is never fatal: after it the program is running and back
\* at the menu.
C9_EngineErrorNeverFatal ==
    ( /\ last.msg = "engine_error"
      /\ \/ last.op = "add_sale" /\ last.called
         \/ last.op = "update_sale" /\ last.nread = 2
         \/ last.op = "delete_sale" /\ last.nread = 1 )
    => run = "running" /\ pc = "menu"

\* the text read in the add-sale flow fails a shape check: the date, or the
\* quantity once read, or the discount once read
ShapeError(l) ==
    \/ ~(Len(l.sdate) = 10 /\ CountHyphen(l.sdate) = 2)
    \/ l.nread >= 4 /\ (~ParseInt(l.qtytext).ok \/ ParseInt(l.qtytext).val <= 0)
    \/ l.nread >= 5 /\ (~ParseInt(l.disctext).ok \/ ParseInt(l.disctext).val < 0)

\* C10: in the add-sale flow a date failing the shape check, a quantity that
\* is not an integer or is <= 0, or a discount that is not an integer or is
\* < 0 is caught before the Store is called: add_sale is not invoked and the
\* tables are unchanged.
C10_ShapeErrorCaughtBeforeStore ==
    [][ (last'.op = "add_sale" /\ ShapeError(last'))
        => /\ ~last'.called
           /\ db' = db
           /\ disk' = disk
           /\ run' = "running" ]_vars

\* a negative discount was typed in a seeded store after a valid date and
\* quantity, and add_sale was not called
C10_Witness ==
    /\ last.op = "add_sale" /\ last.nread = 5
    /\ ParseInt(last.qtytext).ok /\ ParseInt(last.qtytext).val > 0
    /\ ParseInt(last.disctext).ok /\ ParseInt(last.disctext).val < 0
    /\ ~last.called
    /\ db.sale # {}

\* C11: in every reachable state the member id and the book id of every
\* sale row, in the connection's view and on disk, refer to an existing
\* member row and an existing book row.
C11_SaleReferencesExist ==
    /\ \A s \in db.sale : s.mid \in DOMAIN db.member /\ s.bid \in DOMAIN db.book
    /\ \A s \in disk.sale :
          s.mid \in DOMAIN disk.member /\ s.bid \in DOMAIN disk.book

\* the table holds the seeded rows and a row that add_sale just recorded
C11_Witness ==
    /\ last.op = "add_sale" /\ last.ok
    /\ \E s \in db.sale : s.sid = last.sid /\ s.mid = last.mid
                          /\ s.bid = last.bid
    /\ \A i \in 1..Len(SeedSale) : i \in Sids(db)

\* C12: a start seeds (3 members, 3 books with B001 priced 600 and stock
\* 50, 4 sample sales) if and only if the committed member table is empty;
\* a start that finds members inserts nothing, and a start on a store that
\* holds sale rows leaves the sale table as it is.
C12_SeedOnlyWhenEmpty ==
    [][ (last'.op = "start" /\ run # "running")
        => /\ DOMAIN disk.member = {}
              => /\ last'.msg = "seeded"
                 /\ db'.member = SeedMember
                 /\ db'.book = SeedBook
                 /\ db'.book["B001"].bprice = 600
                 /\ db'.book["B001"].bstock = 50
                 /\ Cardinality(db'.sale) = Cardinality(disk.sale) + 4
                 /\ disk.sale \subseteq db'.sale
           /\ DOMAIN disk.member # {}
              => /\ last'.msg = "seed_skipped"
                 /\ db' = disk
           /\ disk.sale # {} => db'.sale = disk.sale
           /\ disk' = disk ]_vars

\* the program was started again on a store that holds the four seeded
\* rows and a recorded one, and seeding was skipped
C12_Witness ==
    /\ last.op = "start" /\ last.msg = "seed_skipped"
    /\ \A i \in 1..Len(SeedSale) : i \in Sids(db)
    /\ Cardinality(db.sale) = Len(SeedSale) + 1

DateShape(t) == Len(t) = 10 /\ Cardinality({i \in 1..Len(t) : t[i] = "-"}) = 2

C14_RepromptInsideAddFlow ==
    (last.op = "add_sale" /\ ShapeError(last) /\ run = "running")
        => pc \in {"add_date", "add_quantity", "add_discount"}

\* the listing l is strictly ascending
StrictlyAscending(l) == \A i \in 1..(Len(l) - 1) : l[i] < l[i + 1]

\* C15: the report lists exactly the ids of the rows in the sale table,
\* each once, in strictly ascending order; it lists no id that was ever
\* deleted; when the table is empty it prints the no-records notice and
\* lists nothing.
C15_ReportListsSaleTable ==
    (last.op = "report" /\ last.msg # "engine_error")
        => /\ StrictlyAscending(last.listing)
           /\ {last.listing[i] : i \in 1..Len(last.listing)} = Sids(db)
           /\ Len(last.listing) = Cardinality(db.sale)
           /\ \A i \in 1..Len(last.listing) :
                 last.listing[i] \notin ever.deleted
           /\ last.msg = "no_records" <=> db.sale = {}
           /\ db.sale = {} => last.listing = <<>>

\* a report was printed after a sale was deleted and another recorded
C15_Witness ==
    /\ last.op = "report" /\ last.msg = "report"
    /\ ever.deleted # {}
    /\ Len(last.listing) >= Len(SeedSale)
    /\ \E i \in 1..Len(last.listing) : last.listing[i] > Len(SeedSale)

\* the text is a decimal number: ASCII digits only, at least one
Numeric(t) == t # <<>> /\ \A i \in 1..Len(t) : t[i] \in AsciiDigit

\* C16: at the id prompt of the update and delete flows an empty input
\* cancels the flow and leaves all tables unchanged; a number that is not a
\* sale id is rejected, the prompt is shown again and all tables are
\* unchanged; an update or a delete changes the sale table only at an id
\* that is in the table at that moment.
C16_IdPromptGuardsWrites ==
    [][ /\ ( /\ pc \in {"update_id", "delete_id"}
             /\ last'.nread = 1 /\ last'.sidtext = <<>> )
           => /\ pc' = "menu" /\ run' = "running"
              /\ last'.msg = "cancelled"
              /\ db' = db /\ disk' = disk
        /\ ( /\ pc \in {"update_id", "delete_id"}
             /\ last'.nread = 1 /\ Numeric(last'.sidtext)
             /\ last'.msg # "engine_error"
             /\ ParseInt(last'.sidtext).val \notin Sids(db) )
           => /\ pc' = pc /\ run' = "running"
              /\ last'.msg = "no_such_id"
              /\ db' = db /\ disk' = disk
        /\ ( /\ last'.op \in {"update_sale", "delete_sale"}
             /\ run' = "running"
             /\ db' # db )
           => /\ last'.sid \in Sids(db)
              /\ {s \in db'.sale : s.sid # last'.sid}
                    = {s \in db.sale : s.sid # last'.sid} ]_vars

\* an id that is not in the table any more was typed at the update prompt
\* and the prompt is shown again
C16_Witness ==
    /\ pc = "update_id" /\ last.op = "update_sale"
    /\ last.msg = "no_such_id"
    /\ last.sid \in ever.deleted
    /\ last.sid \notin Sids(db)

\* C17: a menu operation changes the member and book tables only by the
\* stock decrement of a successful add_sale: member rows and book ids,
\* titles and prices never change, stock never increases, and update,
\* delete, report and every failed add_sale leave both tables unchanged.
C17_MemberBookFrame ==
    [][ (run = "running" /\ last'.op \in
            {"add_sale", "report", "update_sale", "delete_sale", "other"})
        => /\ db'.member = db.member
           /\ DOMAIN db'.book = DOMAIN db.book
           /\ \A b \in DOMAIN db.book :
                /\ db'.book[b].btitle = db.book[b].btitle
                /\ db'.book[b].bprice = db.book[b].bprice
                /\ db'.book[b].bstock <= db.book[b].bstock
           /\ db'.book # db.book => last'.op = "add_sale" /\ last'.ok
           /\ (last'.op = "add_sale" /\ ~last'.ok) => db'.book = db.book ]_vars

\* C18: in every reachable state every sale row has quantity > 0 and
\* discount >= 0.
C18_QuantityAndDiscountRange ==
    \A s \in db.sale \cup disk.sale : s.sqty > 0 /\ s.sdiscount >= 0

\* the table holds a recorded row and a row with an updated discount
C18_Witness ==
    /\ last.op = "update_sale" /\ last.msg = "updated"
    /\ \E s \in db.sale : s.sid = last.sid
                          /\ s.sdiscount = ParseInt(last.disctext).val
    /\ \E s \in db.sale : s.sid > Len(SeedSale) /\ s.sid # last.sid

\* C19: sale ids are unique, and every successfully recorded sale gets an
\* id strictly greater than every id given before to a seeded or recorded
\* sale, deleted ones included.
C19_SaleIdsNeverReused ==
    [][ /\ Cardinality(Sids(db')) = Cardinality(db'.sale)
        /\ (last'.op = "add_sale" /\ last'.ok)
           => /\ \A i \in ever.issued : last'.sid > i
              /\ \A i \in ever.deleted : last'.sid > i
              /\ \A i \in Sids(db) : last'.sid > i
              /\ last'.sid \in Sids(db') ]_vars

\* a sale was recorded after a recorded sale was deleted
C19_Witness ==
    /\ last.op = "add_sale" /\ last.ok
    /\ \E i \in ever.deleted : i > Len(SeedSale) /\ i < last.sid

====
